---- MODULE Spec2Model ----
(***************************************************************************)
(* A model of package idnumber (pkg/idnumber/idnumber.go): South African   *)
(* ID numbers, YYMMDD GGGG C 8 L.                                          *)
(*                                                                         *)
(* Strings are sequences of one-character strings.  An IDNumber is a       *)
(* record [birthdate, gender, citizenship, luhnValue]; a *IDNumber that    *)
(* may be nil is a sequence of at most one IDNumber.  A ConfigOption is a  *)
(* record [op, n, s]: the closure's name, its captured integers and its    *)
(* captured string.  An int64 that TLC's 32-bit integers cannot hold (the  *)
(* 12-digit partial ID) is kept as its sequence of decimal digits.         *)
(***************************************************************************)
EXTENDS Integers, Sequences, FiniteSets, TLC

VARIABLES call, configOptions, idNumber, invoked, finalized, ret, err, prev

vars == <<call, configOptions, idNumber, invoked, finalized, ret, err, prev>>

---------------------------------------------------------------------------
(* Program constants.                                                      *)

minFemale == 0
maxFemale == 4999
maxMale == 9999
minMale == 5000

Citizen == 0
PermanentResident == 1

dateIndex == 0
dateLength == 6
genderIndex == 6
genderLength == 4
citizenIndex == 10
citizenLength == 1
luhnIndex == 12
luhnLength == 1
idLength == 13

luhnUnset == -1

ErrNil == "nil"
ErrIncorrectIDStringLength == "incorrect ID string length"
ErrInvalidLuhnNumber == "invalid luhn number"
ErrTimeParse == "time.ParseError"
ErrStrconvSyntax == "strconv.NumError"

---------------------------------------------------------------------------
(* Bounds of the model.                                                    *)

MaxOptions == 3
NumDaySamples == 12
NumCodeSamples == 6

---------------------------------------------------------------------------
(* Characters and decimal conversion (fmt, strconv).                       *)

DigitChars == <<"0", "1", "2", "3", "4", "5", "6", "7", "8", "9">>

isDigit(c) == c \in {DigitChars[i] : i \in 1..10}

DigitVal(c) == CHOOSE d \in 0..9 : DigitChars[d + 1] = c

AllDigits(s) == \A i \in 1..Len(s) : isDigit(s[i])

\* id[lo : hi] of Go: the characters at 0-based positions lo .. hi-1.
Slice(s, lo, hi) == SubSeq(s, lo + 1, hi)

RECURSIVE Itoa(_)
\* The decimal digits of n >= 0, no padding.
Itoa(n) == IF n < 10 THEN <<DigitChars[n + 1]>>
           ELSE Itoa(n \div 10) \o <<DigitChars[(n % 10) + 1]>>

RECURSIVE Zeros(_)
Zeros(k) == IF k <= 0 THEN <<>> ELSE <<"0">> \o Zeros(k - 1)

\* The digits ds padded with zeros on the left to at least prec digits.
ZeroPad(ds, prec) == Zeros(prec - Len(ds)) \o ds

\* fmt's %d with precision prec (%0.4d is prec 4, %d prec 1): at least prec
\* digits, zero-padded, after the sign.
FmtInt(n, prec) ==
    IF n < 0 THEN <<"-">> \o ZeroPad(Itoa(0 - n), prec)
    ELSE ZeroPad(Itoa(n), prec)

RECURSIVE Atoi(_)
\* The value of a string of digits.
Atoi(s) == IF s = <<>> THEN 0
           ELSE 10 * Atoi(SubSeq(s, 1, Len(s) - 1)) + DigitVal(s[Len(s)])

\* strconv.ParseInt(s, 10, bits): an optional sign, then one or more digits.
ParseIntOK(s) ==
    /\ s # <<>>
    /\ LET body == IF s[1] \in {"+", "-"} THEN Tail(s) ELSE s
       IN body # <<>> /\ AllDigits(body)

ParseIntVal(s) ==
    IF s[1] = "-" THEN 0 - Atoi(Tail(s))
    ELSE IF s[1] = "+" THEN Atoi(Tail(s))
    ELSE Atoi(s)

---------------------------------------------------------------------------
(* Calendar dates (package time).                                          *)

IsLeap(y) == (y % 4 = 0 /\ y % 100 # 0) \/ y % 400 = 0

daysIn(m, y) == IF m = 2 THEN (IF IsLeap(y) THEN 29 ELSE 28)
                ELSE IF m \in {4, 6, 9, 11} THEN 30 ELSE 31

RECURSIVE NormDay(_, _, _)
\* A day of month outside 1..daysIn moves the date into the months before
\* or after.
NormDay(y, m, d) ==
    IF d < 1
    THEN LET pm == IF m = 1 THEN 12 ELSE m - 1
             py == IF m = 1 THEN y - 1 ELSE y
         IN NormDay(py, pm, d + daysIn(pm, py))
    ELSE IF d > daysIn(m, y)
    THEN LET nm == IF m = 12 THEN 1 ELSE m + 1
             ny == IF m = 12 THEN y + 1 ELSE y
         IN NormDay(ny, nm, d - daysIn(m, y))
    ELSE [year |-> y, month |-> m, day |-> d]

\* time.Date(year, month, day, 0, 0, 0, 0, loc): the month overflows into
\* the year, then the day into the month.
Date(year, month, day) ==
    LET m0 == month - 1
    IN NormDay(year + (m0 \div 12), (m0 % 12) + 1, day)

\* The zero time.Time: 1 January of year 1.
ZeroTime == [year |-> 1, month |-> 1, day |-> 1]

\* t.Format("060102"): the year's last two digits, month and day, each as
\* two digits.
Format060102(t) ==
    FmtInt(t.year % 100, 2) \o FmtInt(t.month, 2) \o FmtInt(t.day, 2)

\* time.Parse("060102", s) for a string of 6 characters without a sign:
\* two digits each; a year of 69 or more is 19yy, a smaller one 20yy; the
\* month is 1..12 and the day a day of that month.
PivotYear(yy) == IF yy >= 69 THEN yy + 1900 ELSE yy + 2000

CheckedDate(year, month, day) ==
    IF month < 1 \/ month > 12 \/ day < 1 \/ day > daysIn(month, year)
    THEN [ok |-> FALSE, t |-> ZeroTime]
    ELSE [ok |-> TRUE, t |-> [year |-> year, month |-> month, day |-> day]]

ParseDate(s) ==
    IF ~AllDigits(s) THEN [ok |-> FALSE, t |-> ZeroTime]
    ELSE CheckedDate(PivotYear(Atoi(SubSeq(s, 1, 2))),
                     Atoi(SubSeq(s, 3, 4)), Atoi(SubSeq(s, 5, 6)))

\* Days from 1 January of year 1 to 1 January of year y.
DaysBeforeYear(y) ==
    365 * (y - 1) + ((y - 1) \div 4) - ((y - 1) \div 100) + ((y - 1) \div 400)

RECURSIVE DaysBeforeMonth(_, _)
DaysBeforeMonth(m, y) ==
    IF m = 1 THEN 0 ELSE DaysBeforeMonth(m - 1, y) + daysIn(m - 1, y)

\* t.Unix() \div 86400 for a date at 00:00 UTC: days since 1 January 1970.
UnixDay(t) ==
    DaysBeforeYear(t.year) + DaysBeforeMonth(t.month, t.year) + (t.day - 1)
    - DaysBeforeYear(1970)

\* time.Unix(sec, 0) read as a calendar date, for the day number n of sec.
YearOfUnixDay(n) ==
    CHOOSE y \in 1969..2070 :
        /\ DaysBeforeYear(y) - DaysBeforeYear(1970) <= n
        /\ n < DaysBeforeYear(y + 1) - DaysBeforeYear(1970)

DayOfYear(n, y) == 1 + (n + DaysBeforeYear(1970) - DaysBeforeYear(y))

DateOfUnixDay(n) == Date(YearOfUnixDay(n), 1, DayOfYear(n, YearOfUnixDay(n)))

---------------------------------------------------------------------------
(* Luhn check digit (github.com/theplant/luhn).                            *)

\* What the digit cur, the i-th from the right, adds to the sum: with an
\* even i it is doubled and the digits of the double are added.
luhnTerm(cur, i) ==
    IF i % 2 = 0
    THEN (IF cur * 2 > 9 THEN ((cur * 2) % 10) + ((cur * 2) \div 10)
          ELSE cur * 2)
    ELSE cur

RECURSIVE checksumFrom(_, _)
\* The loop of checksum(number) over the decimal digits ds of number, most
\* significant first; i counts the digits from the right.
checksumFrom(ds, i) ==
    IF ds = <<>> THEN 0
    ELSE luhnTerm(ds[Len(ds)], i)
         + checksumFrom(SubSeq(ds, 1, Len(ds) - 1), i + 1)

checksum(ds) == checksumFrom(ds, 0) % 10

luhnFromCheck(checkNumber) ==
    IF checkNumber = 0 THEN 0 ELSE 10 - checkNumber

CalculateLuhn(ds) == luhnFromCheck(checksum(ds))

---------------------------------------------------------------------------
(* IDNumber and its string form.                                           *)

\* fmt.Sprintf("%s%0.4d%d8", birthdate.Format("060102"), gender, citizenship)
PartialString(id) ==
    Format060102(id.birthdate) \o FmtInt(id.gender, 4)
        \o FmtInt(id.citizenship, 1) \o <<"8">>

\* A String that writes the gender code with %d, unpadded.
StringUnpadded(id) ==
    Format060102(id.birthdate) \o FmtInt(id.gender, 1)
        \o FmtInt(id.citizenship, 1) \o <<"8">> \o FmtInt(id.luhnValue, 1)

\* A String whose format ends %d8: the legacy digit after the luhn digit.
StringLegacyLast(id) ==
    Format060102(id.birthdate) \o FmtInt(id.gender, 4)
        \o FmtInt(id.citizenship, 1) \o FmtInt(id.luhnValue, 1) \o <<"8">>

\* fmt.Sprintf("%s%0.4d%d8%d", birthdate.Format("060102"), gender,
\*             citizenship, luhnValue)
String(id) ==
    Format060102(id.birthdate) \o FmtInt(id.gender, 4)
        \o FmtInt(id.citizenship, 1) \o <<"8">> \o FmtInt(id.luhnValue, 1)

GenderString(g) ==
    IF g >= minFemale /\ g <= maxFemale THEN "female"
    ELSE IF g >= minMale /\ g <= maxMale THEN "male"
    ELSE "undefined"

---------------------------------------------------------------------------
(* Configuration options.                                                  *)

SetDate(day, month, year) ==
    [op |-> "SetDate", n |-> <<day, month, year>>, s |-> <<>>]

SetGender(gender) == [op |-> "SetGender", n |-> <<gender>>, s |-> <<>>]

setCitizenship(citizenship) ==
    [op |-> "setCitizenship", n |-> <<citizenship>>, s |-> <<>>]

SetCitizen == setCitizenship(Citizen)

SetResident == setCitizenship(PermanentResident)

SetFromString(id) == [op |-> "SetFromString", n |-> <<>>, s |-> id]

\* rand.Intn(n): any of 0 .. n-1.
Intn(n) == 0..(n - 1)

\* The codes randomFemale() and randomMale() can return.
randomFemale == {minFemale + r : r \in Intn(4999)}

randomMale == {minMale + r : r \in Intn(4999)}

\* The options SetRandomMale() and SetRandomFemale() can return.
SetRandomMale == {SetGender(code) : code \in randomMale}

SetRandomFemale == {SetGender(code) : code \in randomFemale}

\* The closure SetFromString(id) returns, run on the draft idn: the fields
\* are written one by one, and a failure leaves the ones already written.
\* Each step below takes what the step before it parsed.
luhnFromString(id, idn, l) ==
    IF ~ParseIntOK(l) THEN [id |-> idn, err |-> ErrStrconvSyntax]
    ELSE [id |-> [idn EXCEPT !.luhnValue = ParseIntVal(l)], err |-> ErrNil]

citizenshipFromString(id, idn, c) ==
    IF ~ParseIntOK(c) THEN [id |-> idn, err |-> ErrStrconvSyntax]
    ELSE luhnFromString(id, [idn EXCEPT !.citizenship = ParseIntVal(c)],
                        Slice(id, luhnIndex, luhnIndex + luhnLength))

genderFromString(id, idn, g) ==
    IF ~ParseIntOK(g) THEN [id |-> idn, err |-> ErrStrconvSyntax]
    ELSE citizenshipFromString(id, [idn EXCEPT !.gender = ParseIntVal(g)],
                               Slice(id, citizenIndex,
                                     citizenIndex + citizenLength))

dateFromString(id, idn, d) ==
    IF ~d.ok THEN [id |-> idn, err |-> ErrTimeParse]
    ELSE genderFromString(id, [idn EXCEPT !.birthdate = d.t],
                          Slice(id, genderIndex, genderIndex + genderLength))

ApplyFromString(id, idn) ==
    IF Len(id) # idLength
    THEN [id |-> idn, err |-> ErrIncorrectIDStringLength]
    ELSE dateFromString(id, idn,
                        ParseDate(Slice(id, dateIndex,
                                        dateIndex + dateLength)))

\* An ApplyOption whose SetDate assigns a fresh IDNumber holding the date.
ApplyOptionDateResets(o, idn) ==
    IF o.op = "SetDate"
    THEN [id |-> [birthdate |-> Date(o.n[3], o.n[2], o.n[1]), gender |-> 0,
                  citizenship |-> 0, luhnValue |-> 0],
          err |-> ErrNil]
    ELSE IF o.op = "SetGender"
    THEN [id |-> [idn EXCEPT !.gender = o.n[1]], err |-> ErrNil]
    ELSE IF o.op = "setCitizenship"
    THEN [id |-> [idn EXCEPT !.citizenship = o.n[1]], err |-> ErrNil]
    ELSE ApplyFromString(o.s, idn)

\* configOption(idNumber) for each kind of option.
ApplyOption(o, idn) ==
    IF o.op = "SetDate"
    THEN [id |-> [idn EXCEPT !.birthdate = Date(o.n[3], o.n[2], o.n[1])],
          err |-> ErrNil]
    ELSE IF o.op = "SetGender"
    THEN [id |-> [idn EXCEPT !.gender = o.n[1]], err |-> ErrNil]
    ELSE IF o.op = "setCitizenship"
    THEN [id |-> [idn EXCEPT !.citizenship = o.n[1]], err |-> ErrNil]
    ELSE ApplyFromString(o.s, idn)

---------------------------------------------------------------------------
(* NewIDNumber.                                                            *)

\* &IDNumber{luhnValue: -1}
NewDraft == [birthdate |-> ZeroTime, gender |-> 0, citizenship |-> 0,
             luhnValue |-> luhnUnset]

\* The partial ID as the digits of int(partialID).
DigitsOf(partialString) ==
    [i \in 1..Len(partialString) |-> DigitVal(partialString[i])]

\* A CheckLuhn that keeps a supplied digit without comparing it.
CheckLuhnNoCompare(idn, luhnv) ==
    IF idn.luhnValue > 0 THEN [ret |-> <<idn>>, err |-> ErrNil]
    ELSE [ret |-> <<[idn EXCEPT !.luhnValue = luhnv]>>, err |-> ErrNil]

\* The end of NewIDNumber: a luhnValue > 0 of the draft is compared to the
\* computed digit, any other is replaced by it.
CheckLuhn(idn, luhnv) ==
    IF idn.luhnValue > 0
    THEN (IF idn.luhnValue # luhnv
          THEN [ret |-> <<>>, err |-> ErrInvalidLuhnNumber]
          ELSE [ret |-> <<idn>>, err |-> ErrNil])
    ELSE [ret |-> <<[idn EXCEPT !.luhnValue = luhnv]>>, err |-> ErrNil]

\* The luhn digit of the partial ID, when it parses as an integer.
FinalizeString(idn, partialString) ==
    IF ~ParseIntOK(partialString)
    THEN [ret |-> <<>>, err |-> ErrStrconvSyntax]
    ELSE CheckLuhn(idn, CalculateLuhn(DigitsOf(partialString)))

\* The part of NewIDNumber after the loop.
Finalize(idn) == FinalizeString(idn, PartialString(idn))

\* What NewIDNumber returns once the loop has ended without an error after
\* n options: ret and err, with the draft as the loop left it, the number
\* of options called and whether the part after the loop ran.
Finished(idn, n, f) ==
    [ret |-> f.ret, err |-> f.err, idNumber |-> idn, invoked |-> n,
     finalized |-> TRUE]

\* A Failed that returns the draft beside the error.
FailedKeepsDraft(idn, k, e) ==
    [ret |-> <<idn>>, err |-> e, idNumber |-> idn, invoked |-> k,
     finalized |-> FALSE]

\* What NewIDNumber returns when option k has returned the error e.
Failed(idn, k, e) ==
    [ret |-> <<>>, err |-> e, idNumber |-> idn, invoked |-> k,
     finalized |-> FALSE]

RECURSIVE RunOptions(_, _, _)
RECURSIVE AfterOption(_, _, _)
\* The loop over configOptions from option k on.
RunOptions(opts, k, idn) ==
    IF k > Len(opts) THEN Finished(idn, k - 1, Finalize(idn))
    ELSE AfterOption(opts, k, ApplyOption(opts[k], idn))

\* The loop after option k has returned r: an error ends NewIDNumber.
AfterOption(opts, k, r) ==
    IF r.err # ErrNil THEN Failed(r.id, k, r.err)
    ELSE RunOptions(opts, k + 1, r.id)

\* NewIDNumber(configOptions...).
NewIDNumber(opts) == RunOptions(opts, 1, NewDraft)

---------------------------------------------------------------------------
(* The inputs the calls are made with.                                     *)

\* A string written as its character codes: 0..9 the digits, 10 "+",
\* 11 "-", anything else the letter "x".
Chars(codes) ==
    [i \in 1..Len(codes) |->
        IF codes[i] < 10 THEN DigitChars[codes[i] + 1]
        ELSE IF codes[i] = 10 THEN "+"
        ELSE IF codes[i] = 11 THEN "-" ELSE "x"]

MinOf(S) == CHOOSE x \in S : \A y \in S : x <= y

\* k+1 values of the interval S, evenly spread, both ends among them.
Sampled(S, k) ==
    LET lo == MinOf(S)
        n == Cardinality(S)
    IN {c \in S : \E j \in 0..k : c = lo + ((j * (n - 1)) \div k)}

\* The ends of the interval S.
Extremes(S) == Sampled(S, 1)

\* The date fields of the strings parsed: 9 July 1981, 29 February 2000,
\* 1 January (19)69, 29 February (20)68, 29 February (20)01 (no such day),
\* month 13, a letter, and all zeros.  No date field carries a sign.
DateFields ==
    {Chars(<<8, 1, 0, 7, 0, 9>>), Chars(<<0, 0, 0, 2, 2, 9>>),
     Chars(<<6, 9, 0, 1, 0, 1>>), Chars(<<6, 8, 0, 2, 2, 9>>),
     Chars(<<0, 1, 0, 2, 2, 9>>), Chars(<<8, 1, 1, 3, 0, 9>>),
     Chars(<<8, 1, 0, 7, 12, 9>>), Chars(<<0, 0, 0, 0, 0, 0>>)}

GenderFields ==
    {Chars(<<5, 0, 0, 5>>), Chars(<<0, 0, 0, 0>>), Chars(<<4, 9, 9, 9>>),
     Chars(<<9, 9, 9, 9>>), Chars(<<10, 1, 2, 3>>), Chars(<<11, 0, 0, 0>>),
     Chars(<<11, 1, 2, 3>>), Chars(<<5, 0, 12, 5>>)}

CitizenFields == {Chars(<<c>>) : c \in {0, 1, 5, 10, 12}}

LegacyFields == {Chars(<<c>>) : c \in {8, 0, 12}}

LuhnFields == {Chars(<<c>>) : c \in 0..12}

FullStrings ==
    {d \o g \o c \o l \o k : d \in DateFields, g \in GenderFields,
                             c \in CitizenFields, l \in LegacyFields,
                             k \in LuhnFields}

\* Strings of other lengths: the empty one, and 12 and 14 characters.
OtherLengths ==
    {<<>>} \cup {SubSeq(s, 1, 12) : s \in FullStrings}
           \cup {s \o <<"0">> : s \in {t \in FullStrings : t[12] = "8"
                                                          /\ t[11] = "0"}}

ParseStrings == FullStrings \cup OtherLengths

\* The least and the greatest outcome of SetRandomMale() and of
\* SetRandomFemale().
RandomOptionExtremes ==
    {SetGender(code) : code \in Extremes(randomMale)}
    \cup {SetGender(code) : code \in Extremes(randomFemale)}

\* The options the lists given to NewIDNumber are made of.
OptionSamples ==
    {SetDate(9, 7, 1981), SetDate(0, 1, 1970), SetDate(29, 2, 2000),
     SetGender(5005), SetGender(12345), SetCitizen, SetResident}
    \cup RandomOptionExtremes
    \cup {SetFromString(Chars(s)) : s \in
            {<<8, 1, 0, 7, 0, 9, 5, 0, 0, 5, 0, 8, 3>>,
             <<8, 1, 0, 7, 0, 9, 5, 0, 0, 5, 0, 8, 0>>,
             <<8, 1, 0, 7, 0, 9, 5, 0, 0, 5, 0, 8, 4>>,
             <<0, 0, 0, 2, 2, 9, 0, 0, 0, 1, 1, 8, 5>>,
             <<8, 1, 0, 7, 0, 9, 5, 0, 0, 5, 0, 8>>,
             <<8, 1, 1, 3, 0, 9, 5, 0, 0, 5, 0, 8, 3>>,
             <<8, 1, 0, 7, 0, 9, 5, 0, 0, 12, 0, 8, 3>>}}

OptionLists == UNION {[1..n -> OptionSamples] : n \in 0..MaxOptions}

Years == {1000, 1900, 1950, 1968, 1969, 1970, 1981, 1999, 2000, 2068,
          2069, 2100, 9999}

Months == 0..13

Days == {0, 1, 9, 28, 29, 30, 31, 32}

Genders == {-1, 0, 4999, 5000, 5005, 9999, 10000}

Citizenships == {Citizen, PermanentResident, 2}

---------------------------------------------------------------------------
(* The calls.                                                              *)

NoCall == [call |-> "none", configOptions |-> <<>>, ret |-> <<>>]

Init ==
    /\ call = "none"
    /\ configOptions = <<>>
    /\ idNumber = NewDraft
    /\ invoked = 0
    /\ finalized = FALSE
    /\ ret = <<>>
    /\ err = ErrNil
    /\ prev = NoCall

\* The state after name's call NewIDNumber(opts...) has returned.
Returned(name, opts) ==
    \E r \in {NewIDNumber(opts)} :
       /\ call' = name
       /\ configOptions' = opts
       /\ idNumber' = r.idNumber
       /\ invoked' = r.invoked
       /\ finalized' = r.finalized
       /\ ret' = r.ret
       /\ err' = r.err

\* NewIDNumber(configOptions...) called with a list of options.
NewIDNumberCall ==
    /\ call = "none"
    /\ \E opts \in OptionLists : Returned("NewIDNumber", opts)
    /\ prev' = NoCall

\* NewIDNumber(SetFromString(s)).
SetFromStringCall ==
    /\ call = "none"
    /\ \E s \in ParseStrings : Returned("SetFromString", <<SetFromString(s)>>)
    /\ prev' = NoCall

\* NewID(day, month, year, gender, citizenship).
NewID(day, month, year, gender, citizenship) ==
    Returned("NewID", <<SetDate(day, month, year), SetGender(gender),
                        setCitizenship(citizenship)>>)

NewIDCall ==
    /\ call = "none"
    /\ \E day \in Days, month \in Months, year \in Years,
          gender \in Genders, citizenship \in Citizenships :
           NewID(day, month, year, gender, citizenship)
    /\ prev' = NoCall

\* The outcomes of SetRandomFemale() and SetRandomMale() the model draws.
FemaleOptionSamples ==
    {SetGender(code) : code \in Sampled(randomFemale, NumCodeSamples)}

MaleOptionSamples ==
    {SetGender(code) : code \in Sampled(randomMale, NumCodeSamples)}

\* The outcomes of the test rand.Intn(100) > 50.
Over50 == {x > 50 : x \in Intn(100)}

\* The days of the span [min, max) of RandomIDNumber, in days since 1970,
\* that the model draws.
SpanDaySamples ==
    LET min == UnixDay(Date(1970, 1, 0))
        max == UnixDay(Date(2070, 1, 0))
        delta == max - min
    IN {r + min : r \in Sampled(Intn(delta), NumDaySamples)}

\* RandomIDNumber(): a second of the span is drawn, read as a date in the
\* local zone (the UTC day, or the day before or after it), then the gender
\* option and the citizenship option are drawn.
RandomIDNumber ==
    \E secDay \in SpanDaySamples, zone \in {-1, 0, 1},
       female \in Over50, citizen \in Over50 :
      \E randomDate \in {DateOfUnixDay(secDay + zone)},
         citizenOption \in {IF citizen THEN SetCitizen ELSE SetResident},
         genderOption \in (IF female THEN FemaleOptionSamples
                                     ELSE MaleOptionSamples) :
           Returned("RandomIDNumber",
                    <<SetDate(randomDate.day, randomDate.month,
                              randomDate.year),
                      genderOption, citizenOption>>)

RandomIDNumberCall ==
    /\ call = "none"
    /\ RandomIDNumber
    /\ prev' = NoCall

\* NewIDNumber(SetFromString(id.String())) on the identifier id that NewID
\* or RandomIDNumber returned.
ReparseCall ==
    /\ call \in {"NewID", "RandomIDNumber"}
    /\ ret # <<>>
    /\ prev' = [call |-> call, configOptions |-> configOptions, ret |-> ret]
    /\ Returned("Reparse", <<SetFromString(String(ret[1]))>>)

Next ==
    \/ NewIDNumberCall
    \/ SetFromStringCall
    \/ NewIDCall
    \/ RandomIDNumberCall
    \/ ReparseCall

Spec == Init /\ [][Next]_vars

---------------------------------------------------------------------------
(* The claims.                                                             *)

\* The string given to the call NewIDNumber(SetFromString(s)).
GivenString == configOptions[1].s

\* The Luhn digit of the first 11 characters of the 13-digit string s and
\* the legacy digit 8.
LuhnOfString(s) == CalculateLuhn(DigitsOf(SubSeq(s, 1, 11) \o <<"8">>))

\* C1: for every 13-digit string s (with a date field that parses),
\* NewIDNumber(SetFromString(s)) fails with ErrInvalidLuhnNumber when the
\* digit at position 12 differs from the Luhn digit of the partial number,
\* and succeeds when they are equal, a supplied 0 included.
C1_SuppliedDigitIsChecked ==
    (/\ call = "SetFromString"
     /\ Len(GivenString) = idLength
     /\ AllDigits(GivenString)
     /\ ParseDate(SubSeq(GivenString, 1, 6)).ok)
    => IF DigitVal(GivenString[13]) # LuhnOfString(GivenString)
       THEN ret = <<>> /\ err = ErrInvalidLuhnNumber
       ELSE ret # <<>> /\ err = ErrNil

\* The decimal digits of the number an identifier's own fields form: YYMMDD,
\* the gender code on 4 digits (5 from 10000 on), the citizenship digit, 8.
OwnDigits(id) ==
    <<(id.birthdate.year % 100) \div 10, id.birthdate.year % 10,
      id.birthdate.month \div 10, id.birthdate.month % 10,
      id.birthdate.day \div 10, id.birthdate.day % 10>>
    \o (IF id.gender >= 10000 THEN <<id.gender \div 10000>> ELSE <<>>)
    \o <<(id.gender \div 1000) % 10, (id.gender \div 100) % 10,
         (id.gender \div 10) % 10, id.gender % 10>>
    \o <<id.citizenship, 8>>

\* C2: whenever NewIDNumber returns an identifier, whatever the options, its
\* checksum digit is the Luhn digit of the number its own fields form.
C2_ChecksumOfOwnFields ==
    ret # <<>> => ret[1].luhnValue = CalculateLuhn(OwnDigits(ret[1]))

\* C2's case: a list of three options in which a string supplies a checksum
\* digit and a later option writes a field again, and NewIDNumber succeeds.
C2_Witness ==
    /\ call = "NewIDNumber"
    /\ Len(configOptions) = 3
    /\ configOptions[1].op = "SetFromString"
    /\ configOptions[2].op = "SetGender"
    /\ configOptions[3].op = "SetDate"
    /\ idNumber.luhnValue > 0
    /\ ret # <<>>

\* C3: when NewIDNumber(SetFromString(s)) succeeds, String() of what it
\* returns is s, character for character.
C3_ParseThenFormatIsIdentity ==
    (call = "SetFromString" /\ ret # <<>>) => String(ret[1]) = GivenString

\* The arguments of the call NewID(day, month, year, gender, citizenship)
\* are valid fields: a calendar date with a four-digit year, a gender code
\* in [0, 9999], Citizen or PermanentResident.
ValidFields(opts) ==
    /\ opts[1].n[3] \in 1000..9999
    /\ opts[1].n[2] \in 1..12
    /\ opts[1].n[1] \in 1..daysIn(opts[1].n[2], opts[1].n[3])
    /\ opts[2].n[1] \in minFemale..maxMale
    /\ opts[3].n[1] \in {Citizen, PermanentResident}

\* NewID was called with valid fields and what it returned was parsed again.
ReparsedValidNewID ==
    call = "Reparse" /\ prev.call = "NewID" /\ ValidFields(prev.configOptions)

\* C4 as stated: an identifier NewID built from valid fields, formatted and
\* parsed again, gives an identifier with the same date, gender code,
\* citizenship and checksum digit.
C4_RoundTripAnyYear ==
    ReparsedValidNewID => (ret # <<>> /\ ret = prev.ret)

\* C4 as amended: the same for a birth year in 1969..2068, the years that
\* the two-digit year of the string is read back as.
C4_RoundTripInPivotWindow ==
    (ReparsedValidNewID /\ prev.configOptions[1].n[3] \in 1969..2068)
    => (ret # <<>> /\ err = ErrNil /\ ret = prev.ret)

\* C4's case: 29 February 2068, the last year of the window, gender code
\* 9999, read back unchanged.
C4_Witness ==
    /\ ReparsedValidNewID
    /\ prev.configOptions[1].n = <<29, 2, 2068>>
    /\ prev.configOptions[2].n = <<9999>>
    /\ ret # <<>>
    /\ ret[1].birthdate = [year |-> 2068, month |-> 2, day |-> 29]

\* C5: String() of every identifier returned is 13 digits: YYMMDD of the
\* birth date, the gender code on 4 digits, the citizenship digit (0 or 1),
\* the digit 8 and the checksum digit.
C5_StringIsThirteenDigits ==
    ret # <<>> =>
        /\ Len(String(ret[1])) = idLength
        /\ AllDigits(String(ret[1]))
        /\ SubSeq(String(ret[1]), 1, 6) = Format060102(ret[1].birthdate)
        /\ Atoi(SubSeq(String(ret[1]), 7, 10)) = ret[1].gender
        /\ String(ret[1])[11] \in {"0", "1"}
        /\ DigitVal(String(ret[1])[11]) = ret[1].citizenship
        /\ String(ret[1])[12] = "8"
        /\ DigitVal(String(ret[1])[13]) = ret[1].luhnValue

\* C6: NewIDNumber(SetFromString(s)) returns an identifier only if s is 13
\* characters, every one of them a digit.
C6_OnlyDigitStringsAccepted ==
    (call = "SetFromString" /\ ret # <<>>)
    => (Len(GivenString) = idLength /\ AllDigits(GivenString))

\* C7: RandomIDNumber returns no error, and parsing the string of what it
\* returned does not fail with ErrInvalidLuhnNumber.
C7_RandomIDNumberIsConsistent ==
    /\ call = "RandomIDNumber" => (ret # <<>> /\ err = ErrNil)
    /\ (call = "Reparse" /\ prev.call = "RandomIDNumber")
       => err # ErrInvalidLuhnNumber

\* C7's case: a date drawn in 2069, the end of the span, whose string is
\* parsed as a date in 1969 and passes the checksum comparison.
C7_Witness ==
    /\ call = "Reparse"
    /\ prev.call = "RandomIDNumber"
    /\ prev.ret[1].birthdate.year = 2069
    /\ ret # <<>>
    /\ ret[1].birthdate.year = 1969
    /\ idNumber.luhnValue > 0

\* Option o returns an error (only SetFromString can, and whether it does
\* depends on its string alone).
Fails(o) == ApplyOption(o, NewDraft).err # ErrNil

\* The first option of opts that fails.
FirstFailing(opts) ==
    CHOOSE k \in 1..Len(opts) :
        Fails(opts[k]) /\ \A j \in 1..(k - 1) : ~Fails(opts[j])

\* C8: if an option fails, NewIDNumber returns the first failing option's
\* error and nil, calls no option after it (the draft is what the options
\* up to it left), and does not run the part after the loop.
C8_FirstFailureAborts ==
    (\E k \in 1..Len(configOptions) : Fails(configOptions[k]))
    => /\ ret = <<>>
       /\ err = ApplyOption(configOptions[FirstFailing(configOptions)],
                            NewDraft).err
       /\ invoked = FirstFailing(configOptions)
       /\ idNumber = NewIDNumber(SubSeq(configOptions, 1,
                                        FirstFailing(configOptions))).idNumber
       /\ ~finalized

\* C8's case: the second of three options fails after it has written the
\* birth date, and a SetGender follows it.
C8_Witness ==
    /\ call = "NewIDNumber"
    /\ Len(configOptions) = 3
    /\ ~Fails(configOptions[1])
    /\ Fails(configOptions[2])
    /\ configOptions[3].op = "SetGender"
    /\ err = ErrStrconvSyntax
    /\ idNumber.birthdate # ZeroTime
    /\ idNumber.gender # configOptions[3].n[1]

\* The fields an option writes.
Writes(o, field) ==
    \/ o.op = "SetFromString"
    \/ o.op = "SetDate" /\ field = "birthdate"
    \/ o.op = "SetGender" /\ field = "gender"
    \/ o.op = "setCitizenship" /\ field = "citizenship"

\* The value a non-failing option writes to a field it writes.
Written(o, field) ==
    IF o.op = "SetDate" THEN Date(o.n[3], o.n[2], o.n[1])
    ELSE IF o.op \in {"SetGender", "setCitizenship"} THEN o.n[1]
    ELSE IF field = "birthdate" THEN ParseDate(SubSeq(o.s, 1, 6)).t
    ELSE IF field = "gender" THEN ParseIntVal(SubSeq(o.s, 7, 10))
    ELSE IF field = "citizenship" THEN ParseIntVal(SubSeq(o.s, 11, 11))
    ELSE ParseIntVal(SubSeq(o.s, 13, 13))

\* The value of a field after the options opts: that of the last option
\* that writes it, or the new draft's.
LastWrite(opts, field) ==
    IF \E k \in 1..Len(opts) : Writes(opts[k], field)
    THEN Written(opts[CHOOSE k \in 1..Len(opts) :
                        /\ Writes(opts[k], field)
                        /\ \A j \in (k + 1)..Len(opts) :
                              ~Writes(opts[j], field)], field)
    ELSE NewDraft[field]

\* C9: when no option fails, each field of the draft that reaches the part
\* after the loop holds what the last option writing that field wrote, or
\* its initial value (the checksum unset) when none does.
C9_LastWriteWins ==
    finalized =>
        /\ invoked = Len(configOptions)
        /\ idNumber.birthdate = LastWrite(configOptions, "birthdate")
        /\ idNumber.gender = LastWrite(configOptions, "gender")
        /\ idNumber.citizenship = LastWrite(configOptions, "citizenship")
        /\ idNumber.luhnValue = LastWrite(configOptions, "luhnValue")

\* C9's case: SetGender, then a string that writes all four fields, then
\* SetDate: the gender and the checksum digit are the string's, the date
\* is SetDate's.
C9_Witness ==
    /\ call = "NewIDNumber"
    /\ finalized
    /\ Len(configOptions) = 3
    /\ configOptions[1].op = "SetGender"
    /\ configOptions[2].op = "SetFromString"
    /\ configOptions[3].op = "SetDate"
    /\ idNumber.gender # configOptions[1].n[1]
    /\ idNumber.luhnValue # luhnUnset
    /\ idNumber.birthdate # ParseDate(SubSeq(configOptions[2].s, 1, 6)).t

\* C10: the codes SetRandomMale can set are exactly [5000, 9999] and those
\* SetRandomFemale can set are exactly [0, 4999].
C10_RandomCodesCoverRanges ==
    call = "RandomIDNumber" =>
        /\ idNumber.gender \in randomFemale \cup randomMale
        /\ {o.n[1] : o \in SetRandomMale} = minMale..maxMale
        /\ {o.n[1] : o \in SetRandomFemale} = minFemale..maxFemale

====
